---- MODULE Spec2Model ----
(***************************************************************************)
(* A model of pkg/cmd/roachtest-selector/sfselector/consumer.go:           *)
(* ReadTestsToRun fetches a CSV object from GCS, loads it into the map     *)
(* testNamesToRun and marks the tests of the caller's slice that the       *)
(* selector skips.  One action per statement group of ReadTestsToRun; the  *)
(* caller may call again on the slice a successful call returned.          *)
(***************************************************************************)
EXTENDS Integers, Sequences, FiniteSets, TLC

(* ------------------------------ bounds --------------------------------- *)
MaxTests == 2
MaxLines == 2
MaxCalls == 2

(* --------------------------- input alphabets --------------------------- *)
Names == {"A", "B"}
Suites == {"nightly", "weekly"}
PriorSkip == "flaky"
PriorSkipDetails == "skipped by the registry"

\* registry.SuiteSet: the zero value is not initialized
Uninitialized == [initialized |-> FALSE, suites |-> {}]
OptOutSets == {Uninitialized, [initialized |-> TRUE, suites |-> {"nightly"}]}

\* the registry.TestSpec fields that ReadTestsToRun reads or writes
TestSpecs ==
    { [Name |-> n, Skip |-> s[1], SkipDetails |-> s[2], TestSelectionOptOutSuites |-> o] :
        n \in Names, s \in {<<"", "">>, <<PriorSkip, PriorSkipDetails>>}, o \in OptOutSets }

\* the lines an object may hold: records of 4, 3 and 5 fields, and the empty line
Lines ==
    { <<"A", "no", "100", "5">>,
      <<"A", "yes", "abc", "x">>,
      <<"B", "no", "7">>,
      <<"B", "no", "7", "5", "extra">>,
      <<>> }

SeqsUpTo(S, n) == UNION { [1..k -> S] : k \in 0..n }

Nil == "nil"
ErrConnection == "connection to GCS failed"
ErrObject == "failed to get the object"
ErrRead == "failed to read CSV from GCS"
ErrCsv == "failed to read CSV data"

VARIABLES
    tests,               \* the caller's slice, mutated in place
    suite,               \* the suite argument
    object,              \* the content of the object in the bucket
    ctxCanceled,         \* whether ctx has been canceled
    pc,                  \* position in ReadTestsToRun
    body,                \* io.ReadAll(r)
    data,                \* cr.ReadAll()
    testNamesToRun,      \* map[string]*testInfo
    i,                   \* index of the selection loop (1-based)
    selectedTestsCount,
    result,              \* the returned (int, error)
    calls,               \* number of calls started
    tests0               \* the slice as it was when the current call started

vars == <<tests, suite, object, ctxCanceled, pc, body, data, testNamesToRun, i,
          selectedTestsCount, result, calls, tests0>>

(* ------------------------------ helpers -------------------------------- *)

\* strconv.ParseInt(s, 10, 64) with the error dropped: 0 for what is no number
DecimalValue == ("100" :> 100) @@ ("5" :> 5) @@ ("7" :> 7)
getDuration(durationStr) ==
    IF durationStr \in DOMAIN DecimalValue THEN DecimalValue[durationStr] ELSE 0
getTotalRuns(totalRunsStr) ==
    IF totalRunsStr \in DOMAIN DecimalValue THEN DecimalValue[totalRunsStr] ELSE 0

\* encoding/csv Reader.ReadAll with FieldsPerRecord = 0: empty lines are
\* skipped, the first record fixes the number of fields of all the others
csvRecords(b) == SelectSeq(b, LAMBDA l : Len(l) > 0)
csvErrFieldCount(b) ==
    LET recs == csvRecords(b)
    IN  \E k \in 1..Len(recs) : Len(recs[k]) # Len(recs[1])

\* the indexing d[1], d[2], d[3] of the loading loop panics on a short record
indexOutOfRange(rows) == \E k \in 1..Len(rows) : Len(rows[k]) < 4

testInfo(d) ==
    [selected |-> d[2] # "no",
     avgDurationInMillis |-> getDuration(d[3]),
     totalRuns |-> getTotalRuns(d[4])]

\* for _, d := range rows { m[d[0]] = &testInfo{...} }: a later row overwrites
RECURSIVE loadRows(_, _)
loadRows(rows, m) ==
    IF rows = <<>> THEN m
    ELSE loadRows(Tail(rows), (Head(rows)[1] :> testInfo(Head(rows))) @@ m)

testShouldBeSkipped_noOptOut(m, test, s) ==
    /\ test.Name \in DOMAIN m
    /\ test.Skip = ""
    /\ ~m[test.Name].selected

testShouldBeSkipped_noSkipGuard(m, test, s) ==
    IF test.TestSelectionOptOutSuites.initialized /\ s \in test.TestSelectionOptOutSuites.suites
    THEN FALSE
    ELSE /\ test.Name \in DOMAIN m
         /\ ~m[test.Name].selected

testShouldBeSkipped_selected(m, test, s) ==
    IF test.TestSelectionOptOutSuites.initialized /\ s \in test.TestSelectionOptOutSuites.suites
    THEN FALSE
    ELSE /\ test.Name \in DOMAIN m
         /\ test.Skip = ""
         /\ m[test.Name].selected

testShouldBeSkipped_missing(m, test, s) ==
    IF test.TestSelectionOptOutSuites.initialized /\ s \in test.TestSelectionOptOutSuites.suites
    THEN FALSE
    ELSE /\ test.Skip = ""
         /\ (test.Name \notin DOMAIN m \/ ~m[test.Name].selected)

testShouldBeSkipped(m, test, s) ==
    IF test.TestSelectionOptOutSuites.initialized /\ s \in test.TestSelectionOptOutSuites.suites
    THEN FALSE
    ELSE /\ test.Name \in DOMAIN m
         /\ test.Skip = ""
         /\ ~m[test.Name].selected

SkipMarker == "test selector"
SkipMarkerDetails == "test skipped because it is stable and selective-tests is set."

markSkipped_swapped(test) ==
    [test EXCEPT !.Skip = test.SkipDetails, !.SkipDetails = SkipMarkerDetails]

\* tests[i].Skip = ...; tests[i].SkipDetails = ...
markSkipped(test) ==
    [test EXCEPT !.Skip = SkipMarker, !.SkipDetails = SkipMarkerDetails]

\* return n, err
Return(n, err) ==
    /\ pc' = "done"
    /\ result' = [count |-> n, err |-> err]

ReturnError_zero(err) == Return(0, err)

\* return len(tests), errors.NewAssertionErrorWithWrappedErrf(err, ...)
ReturnError(err) == Return(Len(tests), err)

(* ------------------------------- Init ---------------------------------- *)
Init ==
    /\ tests \in SeqsUpTo(TestSpecs, MaxTests)
    /\ tests0 = tests
    /\ suite \in Suites
    /\ object \in SeqsUpTo(Lines, MaxLines)
    /\ ctxCanceled = FALSE
    /\ pc = "NewClient"
    /\ body = <<>>
    /\ data = <<>>
    /\ testNamesToRun = <<>>
    /\ i = 1
    /\ selectedTestsCount = 0
    /\ result = [count |-> 0, err |-> Nil]
    /\ calls = 1

(* ------------------------------ actions -------------------------------- *)

\* the caller cancels ctx while the fetch is in flight
CancelContext ==
    /\ pc \in {"NewClient", "NewReader", "ReadAll"}
    /\ ~ctxCanceled
    /\ ctxCanceled' = TRUE
    /\ UNCHANGED <<tests, suite, object, pc, body, data, testNamesToRun, i,
                   selectedTestsCount, result, calls, tests0>>

\* client, err := storage.NewClient(ctx, options...)
NewClientFails ==
    /\ pc = "NewClient"
    /\ ReturnError(ErrConnection)
    /\ UNCHANGED <<tests, suite, object, ctxCanceled, body, data, testNamesToRun, i,
                   selectedTestsCount, calls, tests0>>

NewClientOk ==
    /\ pc = "NewClient"
    /\ pc' = "NewReader"
    /\ UNCHANGED <<tests, suite, object, ctxCanceled, body, data, testNamesToRun, i,
                   selectedTestsCount, result, calls, tests0>>

\* r, err := client.Bucket(bucket).Object(object).NewReader(ctx)
NewReaderFails ==
    /\ pc = "NewReader"
    /\ ReturnError(ErrObject)
    /\ UNCHANGED <<tests, suite, object, ctxCanceled, body, data, testNamesToRun, i,
                   selectedTestsCount, calls, tests0>>

NewReaderOk ==
    /\ pc = "NewReader"
    /\ ~ctxCanceled
    /\ pc' = "ReadAll"
    /\ UNCHANGED <<tests, suite, object, ctxCanceled, body, data, testNamesToRun, i,
                   selectedTestsCount, result, calls, tests0>>

\* body, err := io.ReadAll(r)
ReadAllFails ==
    /\ pc = "ReadAll"
    /\ ReturnError(ErrRead)
    /\ UNCHANGED <<tests, suite, object, ctxCanceled, body, data, testNamesToRun, i,
                   selectedTestsCount, calls, tests0>>

ReadAllOk ==
    /\ pc = "ReadAll"
    /\ ~ctxCanceled
    /\ body' = object
    /\ pc' = "csvReadAll"
    /\ UNCHANGED <<tests, suite, object, ctxCanceled, data, testNamesToRun, i,
                   selectedTestsCount, result, calls, tests0>>

\* data, err := cr.ReadAll()
CsvReadAll ==
    /\ pc = "csvReadAll"
    /\ IF csvErrFieldCount(body)
       THEN /\ ReturnError(ErrCsv)
            /\ UNCHANGED data
       ELSE /\ data' = csvRecords(body)
            /\ pc' = "testNamesToRun"
            /\ UNCHANGED result
    /\ UNCHANGED <<tests, suite, object, ctxCanceled, body, testNamesToRun, i,
                   selectedTestsCount, calls, tests0>>

LoadTestNames_headerKept ==
    /\ pc = "testNamesToRun"
    /\ IF indexOutOfRange(data)
       THEN /\ pc' = "panic"
            /\ UNCHANGED <<testNamesToRun, result, i, selectedTestsCount>>
       ELSE /\ testNamesToRun' = loadRows(data, <<>>)
            /\ selectedTestsCount' = 0
            /\ i' = 1
            /\ pc' = "selectTests"
            /\ UNCHANGED result
    /\ UNCHANGED <<tests, suite, object, ctxCanceled, body, data, calls, tests0>>

\* testNamesToRun := make(...); the header-only return; the loading loop
LoadTestNames ==
    /\ pc = "testNamesToRun"
    /\ IF Len(data) <= 1
       THEN /\ Return(Len(tests), Nil)
            /\ testNamesToRun' = <<>>
            /\ UNCHANGED <<i, selectedTestsCount>>
       ELSE IF indexOutOfRange(Tail(data))
       THEN /\ pc' = "panic"
            /\ testNamesToRun' = <<>>
            /\ UNCHANGED <<result, i, selectedTestsCount>>
       ELSE /\ testNamesToRun' = loadRows(Tail(data), <<>>)
            /\ selectedTestsCount' = 0
            /\ i' = 1
            /\ pc' = "selectTests"
            /\ UNCHANGED result
    /\ UNCHANGED <<tests, suite, object, ctxCanceled, body, data, calls, tests0>>

SelectTest_alwaysCount ==
    /\ pc = "selectTests"
    /\ i <= Len(tests)
    /\ IF testShouldBeSkipped(testNamesToRun, tests[i], suite)
       THEN tests' = [tests EXCEPT ![i] = markSkipped(tests[i])]
       ELSE UNCHANGED tests
    /\ selectedTestsCount' = selectedTestsCount + 1
    /\ i' = i + 1
    /\ UNCHANGED <<suite, object, ctxCanceled, pc, body, data, testNamesToRun,
                   result, calls, tests0>>

\* one iteration of: for i := range tests { ... }
SelectTest ==
    /\ pc = "selectTests"
    /\ i <= Len(tests)
    /\ IF testShouldBeSkipped(testNamesToRun, tests[i], suite)
       THEN /\ tests' = [tests EXCEPT ![i] = markSkipped(tests[i])]
            /\ UNCHANGED selectedTestsCount
       ELSE /\ selectedTestsCount' = selectedTestsCount + 1
            /\ UNCHANGED tests
    /\ i' = i + 1
    /\ UNCHANGED <<suite, object, ctxCanceled, pc, body, data, testNamesToRun,
                   result, calls, tests0>>

\* return selectedTestsCount, nil
ReturnSelected ==
    /\ pc = "selectTests"
    /\ i > Len(tests)
    /\ Return(selectedTestsCount, Nil)
    /\ UNCHANGED <<tests, suite, object, ctxCanceled, body, data, testNamesToRun, i,
                   selectedTestsCount, calls, tests0>>

\* the caller runs ReadTestsToRun again on the slice a successful call left,
\* with the same suite and cloud, the object unchanged
CallAgain ==
    /\ pc = "done"
    /\ result.err = Nil
    /\ calls < MaxCalls
    /\ calls' = calls + 1
    /\ tests0' = tests
    /\ pc' = "NewClient"
    /\ ctxCanceled' = FALSE
    /\ body' = <<>>
    /\ data' = <<>>
    /\ testNamesToRun' = <<>>
    /\ i' = 1
    /\ selectedTestsCount' = 0
    /\ UNCHANGED <<tests, suite, object, result>>

Next ==
    \/ CancelContext
    \/ NewClientFails
    \/ NewClientOk
    \/ NewReaderFails
    \/ NewReaderOk
    \/ ReadAllFails
    \/ ReadAllOk
    \/ CsvReadAll
    \/ LoadTestNames
    \/ SelectTest
    \/ ReturnSelected
    \/ CallAgain

Spec == Init /\ [][Next]_vars

(* ------------------------ vocabulary of the claims --------------------- *)

Succeeded == pc = "done" /\ result.err = Nil
Failed == pc = "done" /\ result.err # Nil
FetchErrors == {ErrConnection, ErrObject, ErrRead}

OptedOut(t) ==
    /\ t.TestSelectionOptOutSuites.initialized
    /\ suite \in t.TestSelectionOptOutSuites.suites

\* the data rows (the rows after the first) that carry the name n
RowsFor(n) == {k \in 2..Len(data) : data[k][1] = n}
HasRecord(n) == RowsFor(n) # {}
LastRowFor(n) == data[CHOOSE k \in RowsFor(n) : \A j \in RowsFor(n) : j <= k]
RecordNotSelected(n) == HasRecord(n) /\ LastRowFor(n)[2] = "no"

\* not opted out, no skip yet, a record with selected = false
StableAndUnskipped(t) == ~OptedOut(t) /\ t.Skip = "" /\ RecordNotSelected(t.Name)
\* not opted out, a record of any kind, a skip set before the call
SkippedElsewhere(t) == ~OptedOut(t) /\ HasRecord(t.Name) /\ t.Skip # ""
\* not skipped by the opt-out rule, the missing-record rule or the selected=true rule
RunsByRule125(t) ==
    \/ OptedOut(t)
    \/ ~HasRecord(t.Name)
    \/ (t.Skip = "" /\ ~RecordNotSelected(t.Name))

Indexes == 1..Len(tests0)
MarkedByCall == {k \in Indexes : tests0[k].Skip # SkipMarker /\ tests[k].Skip = SkipMarker}
MalformedRow(b) == \E k \in 1..Len(csvRecords(b)) : Len(csvRecords(b)[k]) # 4

(* ------------------------------- claims -------------------------------- *)

\* C1: after a successful call every candidate that is not opted out, had an
\* empty Skip and has a record with selected = false carries the selector's
\* Skip and SkipDetails, and the returned count leaves all of them out.
C1_StableTestsSkipped ==
    Succeeded =>
        /\ \A k \in Indexes : StableAndUnskipped(tests0[k]) =>
              /\ tests[k].Skip = SkipMarker
              /\ tests[k].SkipDetails = SkipMarkerDetails
        /\ result.count <= Len(tests0) - Cardinality({k \in Indexes : StableAndUnskipped(tests0[k])})

C1_Witness ==
    /\ Succeeded
    /\ calls = 1
    /\ \E k \in Indexes : StableAndUnskipped(tests0[k]) /\ tests[k].Skip = SkipMarker

C3_OptOutNeverSkipped ==
    \A k \in Indexes : OptedOut(tests0[k]) => tests[k] = tests0[k]

C3_Witness ==
    /\ Succeeded
    /\ \E k \in Indexes :
          /\ OptedOut(tests0[k])
          /\ tests0[k].Skip = ""
          /\ RecordNotSelected(tests0[k].Name)

\* C4: a successful call changes only Skip and SkipDetails, and only of the
\* candidates that are not opted out, have an empty Skip and a record with
\* selected = false; all others, the length and the order are unchanged.
C4_FrameOfSelection ==
    Succeeded =>
        /\ Len(tests) = Len(tests0)
        /\ \A k \in Indexes :
              IF StableAndUnskipped(tests0[k])
              THEN tests[k] = [tests0[k] EXCEPT !.Skip = SkipMarker,
                                                 !.SkipDetails = SkipMarkerDetails]
              ELSE tests[k] = tests0[k]

C4_Witness ==
    /\ Succeeded
    /\ \E k \in Indexes : StableAndUnskipped(tests0[k]) /\ tests[k] # tests0[k]
    /\ \E k \in Indexes :
          /\ tests0[k].Skip = PriorSkip
          /\ ~OptedOut(tests0[k])
          /\ RecordNotSelected(tests0[k].Name)
          /\ tests[k].Skip = PriorSkip

\* C5: a call that fails in a stage before the selection returns the error
\* with the full number of candidates, has modified no candidate and has not
\* entered the selection loop; a canceled context lets no fetch complete.
C5_FailureReturnsAllUnmodified ==
    /\ Failed =>
          /\ result.count = Len(tests0)
          /\ tests = tests0
          /\ selectedTestsCount = 0
          /\ i = 1
    /\ ctxCanceled => pc \in {"NewClient", "NewReader", "ReadAll"} \/ Failed

C5_Witness ==
    /\ Failed
    /\ ctxCanceled
    /\ result.err = ErrRead
    /\ Len(tests0) > 0

\* C6 as stated, read on the payloads that hold a data row: a payload with a
\* row that has not exactly 4 fields ends in the parse error with the full
\* count and no candidate modified; it is never loaded, never succeeds and
\* never ends in a panic.
C6_MalformedRowIsParseError ==
    (/\ pc \in {"done", "panic"}
     /\ result.err \notin FetchErrors
     /\ Len(csvRecords(body)) >= 2
     /\ MalformedRow(body)) =>
        /\ pc = "done"
        /\ result = [count |-> Len(tests0), err |-> ErrCsv]
        /\ tests = tests0

\* C7: a second call on the slice a successful call left, with the same
\* object and suite, changes no candidate.
C7_SecondCallChangesNothing ==
    calls >= 2 => tests = tests0

C7_Witness ==
    /\ calls = 2
    /\ Succeeded
    /\ Len(data) >= 2
    /\ \E k \in Indexes : tests[k].Skip = SkipMarker
    /\ \E k \in Indexes : tests[k].Skip = ""

\* C8: a candidate whose name has no record in the table is never changed.
C8_NoRecordNeverSkipped ==
    \A k \in Indexes : ~HasRecord(tests0[k].Name) => tests[k] = tests0[k]

C8_Witness ==
    /\ Succeeded
    /\ Len(data) >= 2
    /\ \E k \in Indexes :
          /\ ~HasRecord(tests0[k].Name)
          /\ ~OptedOut(tests0[k])
          /\ tests0[k].Skip = ""

\* C9: a payload that parses to at most one row gives no error, marks no
\* candidate and returns the number of candidates; the first row is never
\* loaded into the table.
C9_HeaderOnlySelectsAll ==
    (~csvErrFieldCount(body) /\ Len(csvRecords(body)) <= 1) =>
        /\ pc \notin {"selectTests", "panic"}
        /\ testNamesToRun = <<>>
        /\ (pc = "done" /\ result.err \notin FetchErrors) =>
              /\ result = [count |-> Len(tests0), err |-> Nil]
              /\ tests = tests0

C9_Witness ==
    /\ Succeeded
    /\ calls = 1
    /\ Len(data) = 1
    /\ data[1][2] = "no"
    /\ \E k \in Indexes :
          /\ tests0[k].Name = data[1][1]
          /\ tests0[k].Skip = ""
          /\ ~OptedOut(tests0[k])

\* C10: on success the returned count plus the number of candidates this
\* call marked is the number of candidates; the count lies in 0..len(tests)
\* and is len(tests) exactly when the call marked nothing.
C10_CountPlusMarkedIsAll ==
    Succeeded =>
        /\ result.count + Cardinality(MarkedByCall) = Len(tests0)
        /\ result.count \in 0..Len(tests0)
        /\ (result.count = Len(tests0)) <=> (tests = tests0)

C10_Witness ==
    /\ Succeeded
    /\ MarkedByCall # {}
    /\ result.count > 0
====
